---- MODULE Spec2Model ----
(***************************************************************************)
(* A model of genie_local.py: the command lifecycle of one invocation      *)
(* (generation, normalization, danger classification, confirmation,       *)
(* execution, failure-driven refinement) over the persisted state record  *)
(* and the history log.                                                    *)
(*                                                                         *)
(* Strings are sequences of one-character strings, so that strip, lower,  *)
(* the regular expressions and the joins are computed character by        *)
(* character as the code computes them.                                    *)
(***************************************************************************)
EXTENDS Integers, Sequences, FiniteSets, TLC

(***************************************************************************)
(* Characters                                                              *)
(***************************************************************************)

\* str.isspace / the regular expressions' \s, over the characters used here
SpaceChars == {" ", "\n", "\t"}

\* the regular expressions' \w, over the characters used here
WordChars ==
  {"a", "c", "d", "e", "f", "h", "i", "k", "l", "m", "n", "o", "r", "s", "t",
   "u", "w", "x", "y", "Y", "E", "S", "R", "0", "_"}

\* str.lower, one character
LowerChar(c) ==
  CASE c = "Y" -> "y"
    [] c = "E" -> "e"
    [] c = "S" -> "s"
    [] c = "R" -> "r"
    [] OTHER -> c

\* str.lower
Lower(s) == [i \in 1..Len(s) |-> LowerChar(s[i])]

RECURSIVE LStrip(_)
LStrip(s) ==
  IF s # <<>> /\ Head(s) \in SpaceChars THEN LStrip(Tail(s)) ELSE s

RECURSIVE RStrip(_)
RStrip(s) ==
  IF s # <<>> /\ s[Len(s)] \in SpaceChars
    THEN RStrip(SubSeq(s, 1, Len(s) - 1))
    ELSE s

\* str.strip
Strip(s) == RStrip(LStrip(s))

\* " ".join(words)
RECURSIVE Join(_)
Join(words) ==
  IF words = <<>> THEN <<>>
  ELSE IF Len(words) = 1 THEN words[1]
  ELSE words[1] \o <<" ">> \o Join(Tail(words))

StartsWith(s, p) == Len(s) >= Len(p) /\ SubSeq(s, 1, Len(p)) = p

EndsWith(s, p) ==
  Len(s) >= Len(p) /\ SubSeq(s, Len(s) - Len(p) + 1, Len(s)) = p

(***************************************************************************)
(* normalize_one_line                                                      *)
(***************************************************************************)

\* the backtick character (a string literal of the module cannot hold one)
BT == "BT"

Fence == <<BT, BT, BT>>

\* the characters of [\w-]
TagChars == WordChars \cup {"-"}

\* the end (as a count of characters) of the longest run of characters of
\* cls that starts after position p
RECURSIVE RunEnd(_, _, _)
RunEnd(s, p, cls) ==
  IF p < Len(s) /\ s[p + 1] \in cls THEN RunEnd(s, p + 1, cls) ELSE p

\* re.sub(r"^```[\w-]*\n?", "", s)
SubFenceOpen(s) ==
  IF ~StartsWith(s, Fence) THEN s
  ELSE LET t == RunEnd(s, 3, TagChars)
           e == IF t < Len(s) /\ s[t + 1] = "\n" THEN t + 1 ELSE t
       IN  SubSeq(s, e + 1, Len(s))

\* where $ matches: at the end, or before a newline that ends the string
AtDollar(s, p) ==
  p = Len(s) \/ (p = Len(s) - 1 /\ s[Len(s)] = "\n")

\* the end of a match of \n?```$ that starts after position i, or -1
FenceCloseEnd(s, i) ==
  LET j == IF i < Len(s) /\ s[i + 1] = "\n" THEN i + 1 ELSE i
  IN  IF j + 3 <= Len(s) /\ SubSeq(s, j + 1, j + 3) = Fence /\ AtDollar(s, j + 3)
        THEN j + 3
        ELSE -1

\* re.sub(r"\n?```$", "", s): the leftmost match is the only one
SubFenceClose(s) ==
  LET starts == {i \in 0..Len(s) : FenceCloseEnd(s, i) # -1}
  IN  IF starts = {} THEN s
      ELSE LET i == CHOOSE x \in starts : \A y \in starts : x <= y
           IN  SubSeq(s, 1, i) \o SubSeq(s, FenceCloseEnd(s, i) + 1, Len(s))

\* if s starts and ends with a backtick: s = s[1:-1].strip()
StripBackticks(s) ==
  IF StartsWith(s, <<BT>>) /\ EndsWith(s, <<BT>>)
    THEN Strip(SubSeq(s, 2, Len(s) - 1))
    ELSE s

\* re.sub over the maximal runs of whitespace from position i on: a run is
\* replaced by one space when it holds a newline (kind "nl", \s*\n\s*) or
\* when it is two or more characters long (kind "two", \s{2,})
RECURSIVE SubRuns(_, _, _)
SubRuns(s, i, kind) ==
  IF i > Len(s) THEN <<>>
  ELSE IF s[i] \notin SpaceChars THEN <<s[i]>> \o SubRuns(s, i + 1, kind)
  ELSE LET j == RunEnd(s, i, SpaceChars)
           run == SubSeq(s, i, j)
           hit == IF kind = "nl"
                    THEN \E k \in 1..Len(run) : run[k] = "\n"
                    ELSE Len(run) >= 2
       IN  (IF hit THEN <<" ">> ELSE run) \o SubRuns(s, j + 1, kind)

\* a faulty variant of normalize_one_line: the newlines are not replaced
normalize_keeping_newlines(s) ==
  IF s = <<>> THEN <<>>
  ELSE LET s1 == Strip(s)
           s2 == SubFenceOpen(s1)
           s3 == SubFenceClose(s2)
           s4 == StripBackticks(s3)
           s6 == SubRuns(s4, 1, "two")
       IN  Strip(s6)

normalize_one_line(s) ==
  IF s = <<>> THEN <<>>
  ELSE LET s1 == Strip(s)
           s2 == SubFenceOpen(s1)
           s3 == SubFenceClose(s2)
           s4 == StripBackticks(s3)
           s5 == SubRuns(s4, 1, "nl")
           s6 == SubRuns(s5, 1, "two")
       IN  Strip(s6)

(***************************************************************************)
(* is_dangerous: re.search of each of DANGEROUS_PATTERNS                   *)
(***************************************************************************)

Inf == -1

\* pattern items: a character class repeated lo..hi times, or \b
Rep(cls, lo, hi) == [cls |-> cls, hi |-> hi, k |-> "cls", lo |-> lo]
WB == [cls |-> {}, hi |-> 0, k |-> "wb", lo |-> 0]
Lit(str) == [i \in 1..Len(str) |-> Rep({str[i]}, 1, 1)]
SPlus == <<Rep(SpaceChars, 1, Inf)>>
SStar == <<Rep(SpaceChars, 0, Inf)>>

IsWordAt(s, i) == i >= 1 /\ i <= Len(s) /\ s[i] \in WordChars

\* \b matches after p characters
IsBoundary(s, p) == IsWordAt(s, p) # IsWordAt(s, p + 1)

\* the positions reachable from those of P by matching one item
StepItem(item, s, P) ==
  IF item.k = "wb" THEN {p \in P : IsBoundary(s, p)}
  ELSE {q \in 0..Len(s) :
          \E p \in P :
            /\ q - p >= item.lo
            /\ item.hi = Inf \/ q - p <= item.hi
            /\ \A i \in (p + 1)..q : s[i] \in item.cls}

\* the positions where a match of the items k.. of pat can end
RECURSIVE MatchEnds(_, _, _, _)
MatchEnds(pat, s, k, P) ==
  IF k > Len(pat) THEN P
  ELSE MatchEnds(pat, s, k + 1, StepItem(pat[k], s, P))

\* re.search(pat, s)
Search(pat, s) == \E st \in 0..Len(s) : MatchEnds(pat, s, 1, {st}) # {}

DANGEROUS_PATTERNS ==
  << Lit(<<"r", "m">>) \o SPlus \o Lit(<<"-", "r", "f">>) \o SPlus
       \o Lit(<<"/">>) \o <<WB>>,
     Lit(<<"m", "k", "f", "s", ".">>),
     <<WB>> \o Lit(<<"u", "m", "o", "u", "n", "t">>) \o <<WB>>,
     <<WB>> \o Lit(<<"d", "d">>) \o <<WB>> \o SPlus \o Lit(<<"i", "f", "=">>),
     <<WB>> \o Lit(<<"s", "h", "u", "t", "d", "o", "w", "n">>) \o <<WB>>,
     <<WB>> \o Lit(<<"r", "e", "b", "o", "o", "t">>) \o <<WB>>,
     <<WB>> \o Lit(<<"c", "h", "o", "w", "n">>) \o SPlus \o Lit(<<"-", "R">>)
       \o SPlus \o Lit(<<"r", "o", "o", "t">>) \o <<WB>>,
     <<WB>> \o Lit(<<"c", "h", "m", "o", "d">>) \o SPlus
       \o <<Rep({"0"}, 3, 4)>> \o <<WB>>,
     <<WB>> \o Lit(<<":", ">">>) \o SStar \o Lit(<<"/">>)
       \o <<Rep(WordChars, 1, 1)>> >>

is_dangerous(cmd) ==
  \E n \in 1..Len(DANGEROUS_PATTERNS) : Search(DANGEROUS_PATTERNS[n], cmd)

(***************************************************************************)
(* Bounds and input sets                                                   *)
(***************************************************************************)

\* invocations of the program in one behaviour
MaxRuns == 2

\* args.task: the positional words
TaskArgs == {<<>>, <<<<>>>>, <<<<"a">>, <<"b">>>>}

\* args.why
WhyArgs == {<<>>, <<"w">>}

\* args.cmd
CmdArgs == {<<>>, <<" ">>, <<" ", "l", "s">>}

Args(m, t, nh, ul, w, c) ==
  [cmd |-> c, mode |-> m, no_history |-> nh, task |-> t, use_last |-> ul, why |-> w]

\* what the backend process prints, or its failure
BackendResults ==
  { [ok |-> FALSE, out |-> <<>>],
    [ok |-> TRUE, out |-> <<"\n">>],
    [ok |-> TRUE, out |-> <<BT, "l", "s", BT, "\n">>],
    [ok |-> TRUE, out |-> <<"r", "m", " ", "-", "r", "f", " ", "/">>],
    [ok |-> TRUE, out |-> <<"r", "m", " ", "-", "r", "f", " ", "/", "x">>] }

\* the lines typed at the two "run it?" prompts
ConfirmInputs ==
  {<<"Y", "E", "S">>, <<"y", "e", "s">>, <<" ", "Y", "E", "S">>, <<"Y">>, <<"n">>}

\* the lines typed at the "refine?" prompt
ChoiceInputs == {<<"Y", " ">>, <<"n">>}

\* what subprocess.run reports of the generated command
Completions ==
  { [returncode |-> 0, stderr |-> <<>>],
    [returncode |-> 1, stderr |-> <<"e">>],
    [returncode |-> 3, stderr |-> <<"e", "\n">>] }

\* the exit code of the improved command
ImprovedCodes == {0, 2}

(***************************************************************************)
(* State Store                                                             *)
(***************************************************************************)

None == [some |-> FALSE]
Some(v) == [some |-> TRUE, val |-> v]

DigitChars == <<"0", "1", "2", "3", "4", "5", "6", "7", "8", "9">>

\* str(n) of an exit code n >= 0, for f"exit {e.returncode}"
RECURSIVE Decimal(_)
Decimal(n) ==
  IF n < 10 THEN <<DigitChars[n + 1]>>
  ELSE Decimal(n \div 10) \o <<DigitChars[(n % 10) + 1]>>

\* the record save_state writes (the timestamp is left out): last_error or "",
\* exit_code if it is not None else ""
StateRecord(t, c, last_error, exit_code) ==
  [ cmd |-> c,
    exit_code |-> IF exit_code.some THEN [int |-> exit_code.val]
                                   ELSE [str |-> <<>>],
    last_error |-> IF last_error.some THEN last_error.val ELSE <<>>,
    task |-> t ]

\* the file after save_state: a full overwrite
save_state(t, c, last_error, exit_code) ==
  <<StateRecord(t, c, last_error, exit_code)>>

\* the log after save_history: one (task, cmd) pair appended
save_history(log, t, c) == Append(log, [cmd |-> c, task |-> t])

\* a faulty variant of LogUnlessSuppressed: the flag is ignored
LogAlways(log, no_history, t, c) == save_history(log, t, c)

\* a faulty variant of LogUnlessSuppressed: the test of the flag is inverted
LogWhenSuppressed(log, no_history, t, c) ==
  IF no_history THEN save_history(log, t, c) ELSE log

\* if not args.no_history: save_history(task, cmd)
LogUnlessSuppressed(log, no_history, t, c) ==
  IF no_history THEN log ELSE save_history(log, t, c)

\* load_state: the stored object, or {} when there is no file
load_state(file) == IF file = <<>> THEN <<>> ELSE file[1]

\* a faulty variant of Missing: an empty stored value counts as present
MissingKeyOnly(d, k) == k \notin DOMAIN d

\* not state.get(k)
Missing(d, k) == k \notin DOMAIN d \/ d[k] = <<>>

\* state.get(k, "")
Get(d, k) == IF k \in DOMAIN d THEN d[k] ELSE <<>>

(***************************************************************************)
(* The state file's text: json.dumps(data, indent=2) and json.loads        *)
(***************************************************************************)

\* Python values: a str or an int; a dict is the sequence of its
\* <<key, value>> pairs in insertion order
PyStr(str) == [str |-> str]
PyInt(n) == [int |-> n]
IsInt(v) == "int" \in DOMAIN v

\* d[k] = v
Put(d, k, v) ==
  IF \E i \in 1..Len(d) : d[i][1] = k
    THEN [i \in 1..Len(d) |-> IF d[i][1] = k THEN <<k, v>> ELSE d[i]]
    ELSE Append(d, <<k, v>>)

\* k in d
Has(d, k) == \E i \in 1..Len(d) : d[i][1] = k

\* d[k], for a key of d
Lookup(d, k) == d[CHOOSE i \in 1..Len(d) : d[i][1] = k][2]

QUOTE == "\""
BACKSLASH == "\\"

\* str(n) of an int
IntText(n) == IF n < 0 THEN <<"-">> \o Decimal(-n) ELSE Decimal(n)

\* a faulty variant of EscapeChar: the backslash is written as it is
EscapeQuoteOnly(c) ==
  CASE c = QUOTE -> <<BACKSLASH, QUOTE>>
    [] c = "\n" -> <<BACKSLASH, "n">>
    [] c = "\t" -> <<BACKSLASH, "t">>
    [] OTHER -> <<c>>

\* json.dumps of one character of a str
EscapeChar(c) ==
  CASE c = QUOTE -> <<BACKSLASH, QUOTE>>
    [] c = BACKSLASH -> <<BACKSLASH, BACKSLASH>>
    [] c = "\n" -> <<BACKSLASH, "n">>
    [] c = "\t" -> <<BACKSLASH, "t">>
    [] OTHER -> <<c>>

RECURSIVE Concat(_)
Concat(ss) == IF ss = <<>> THEN <<>> ELSE Head(ss) \o Concat(Tail(ss))

\* json.dumps of a str
JsonString(str) ==
  <<QUOTE>> \o Concat([i \in 1..Len(str) |-> EscapeChar(str[i])]) \o <<QUOTE>>

\* json.dumps of a str or an int
JsonValue(v) == IF IsInt(v) THEN IntText(v.int) ELSE JsonString(v.str)

\* one member of the object, on its own line, indented by two spaces
JsonMember(kv) ==
  <<"\n", " ", " ">> \o JsonString(kv[1]) \o <<":", " ">> \o JsonValue(kv[2])

RECURSIVE JsonMembers(_)
JsonMembers(d) ==
  IF Len(d) = 1 THEN JsonMember(d[1])
  ELSE JsonMember(d[1]) \o <<",">> \o JsonMembers(Tail(d))

\* json.dumps(d, indent=2)
json_dumps(d) ==
  IF d = <<>> THEN <<"{", "}">>
  ELSE <<"{">> \o JsonMembers(d) \o <<"\n", "}">>

\* the parsers return [ok, val, next]: next is the position after the value
Fail == [next |-> 0, ok |-> FALSE, val |-> <<>>]
Parsed(v, n) == [next |-> n, ok |-> TRUE, val |-> v]

JsonSpace == {" ", "\n", "\t", "\r"}

RECURSIVE SkipSpace(_, _)
SkipSpace(t, i) ==
  IF i <= Len(t) /\ t[i] \in JsonSpace THEN SkipSpace(t, i + 1) ELSE i

\* the characters of a str from position i (after the opening quote) on;
\* a raw control character inside a str is an error
RECURSIVE ScanString(_, _, _)
ScanString(t, i, acc) ==
  IF i > Len(t) THEN Fail
  ELSE IF t[i] = QUOTE THEN Parsed(acc, i + 1)
  ELSE IF t[i] \in {"\n", "\t", "\r"} THEN Fail
  ELSE IF t[i] = BACKSLASH
    THEN IF i + 1 > Len(t) THEN Fail
         ELSE LET e == t[i + 1]
              IN  IF e = "n" THEN ScanString(t, i + 2, Append(acc, "\n"))
                  ELSE IF e = "t" THEN ScanString(t, i + 2, Append(acc, "\t"))
                  ELSE IF e = "r" THEN ScanString(t, i + 2, Append(acc, "\r"))
                  ELSE IF e \in {QUOTE, BACKSLASH, "/"}
                    THEN ScanString(t, i + 2, Append(acc, e))
                  ELSE Fail
  ELSE ScanString(t, i + 1, Append(acc, t[i]))

ParseString(t, i) ==
  IF i <= Len(t) /\ t[i] = QUOTE THEN ScanString(t, i + 1, <<>>) ELSE Fail

DigitValue(c) == CHOOSE n \in 0..9 : DigitChars[n + 1] = c
IsDigit(t, i) == i <= Len(t) /\ \E n \in 1..10 : DigitChars[n] = t[i]

RECURSIVE ScanDigits(_, _, _)
ScanDigits(t, i, acc) ==
  IF IsDigit(t, i) THEN ScanDigits(t, i + 1, acc * 10 + DigitValue(t[i]))
  ELSE Parsed(acc, i)

\* an int: -? then 0 or a digit string that does not start with 0
ParseInt(t, i) ==
  LET neg == i <= Len(t) /\ t[i] = "-"
      j == IF neg THEN i + 1 ELSE i
  IN  IF ~IsDigit(t, j) THEN Fail
      ELSE IF t[j] = "0" THEN Parsed(0, j + 1)
      ELSE LET r == ScanDigits(t, j, 0)
           IN  Parsed(IF neg THEN -r.val ELSE r.val, r.next)

ParseValue(t, i) ==
  IF i <= Len(t) /\ t[i] = QUOTE
    THEN LET r == ParseString(t, i)
         IN  IF r.ok THEN Parsed(PyStr(r.val), r.next) ELSE Fail
    ELSE LET r == ParseInt(t, i)
         IN  IF r.ok THEN Parsed(PyInt(r.val), r.next) ELSE Fail

\* the members of an object from position i on, added to d, up to its "}"
RECURSIVE ParseMembers(_, _, _)
ParseMembers(t, i, d) ==
  LET k == ParseString(t, SkipSpace(t, i))
      c == SkipSpace(t, k.next)
      v == ParseValue(t, SkipSpace(t, c + 1))
      e == SkipSpace(t, v.next)
  IN  IF ~k.ok \/ c > Len(t) \/ t[c] # ":" THEN Fail
      ELSE IF ~v.ok \/ e > Len(t) THEN Fail
      ELSE IF t[e] = "," THEN ParseMembers(t, e + 1, Put(d, k.val, v.val))
      ELSE IF t[e] = "}" THEN Parsed(Put(d, k.val, v.val), e + 1)
      ELSE Fail

\* json.loads of an object whose values are strs and ints; ok is FALSE
\* where json.loads raises
json_loads(t) ==
  LET b == SkipSpace(t, 1)
      r == IF b > Len(t) \/ t[b] # "{" THEN Fail
           ELSE IF SkipSpace(t, b + 1) <= Len(t) /\ t[SkipSpace(t, b + 1)] = "}"
             THEN Parsed(<<>>, SkipSpace(t, b + 1) + 1)
           ELSE ParseMembers(t, b + 1, <<>>)
  IN  IF r.ok /\ SkipSpace(t, r.next) = Len(t) + 1 THEN r ELSE Fail

(***************************************************************************)
(* Generation                                                              *)
(***************************************************************************)

\* call_ollama's return value: out.strip()
call_ollama(r) == Strip(r.out)

\* a faulty variant of Unusable: the empty result is let through
UnusableIfMultiline(c) == \E i \in 1..Len(c) : c[i] = "\n"

\* not cmd or "\n" in cmd
Unusable(c) == c = <<>> \/ \E i \in 1..Len(c) : c[i] = "\n"

\* REFINE_TEMPLATE.format(...): problem.strip() or "no details"
RefinePrompt(t, prev, prob) ==
  [ cmd |-> prev, kind |-> "Refine",
    problem |-> IF Strip(prob) = <<>>
                  THEN <<"n", "o", " ", "d", "e", "t", "a", "i", "l", "s">>
                  ELSE Strip(prob),
    task |-> t ]

\* SYSTEM_TEMPLATE.format(task=task)
SuggestPrompt(t) ==
  [cmd |-> <<>>, kind |-> "Suggest", problem |-> <<>>, task |-> t]

\* EXPLAIN_TEMPLATE.format(cmd=cmd)
ExplainPrompt(c) ==
  [cmd |-> c, kind |-> "Explain", problem |-> <<>>, task |-> <<>>]

NoPrompt == [cmd |-> <<>>, kind |-> "none", problem |-> <<>>, task |-> <<>>]

\* normalize_one_line(call_ollama(model, prompt))
Generate(r) == normalize_one_line(call_ollama(r))

(***************************************************************************)
(* Confirmation gates                                                      *)
(***************************************************************************)

\* a faulty variant of AcceptsDangerous: the letter case is ignored
AcceptsDangerousAnyCase(line) == Strip(Lower(line)) = <<"y", "e", "s">>

\* a faulty variant of AcceptsDangerous: the y/yes gate of a normal command
AcceptsDangerousLikeNormal(line) ==
  Strip(Lower(line)) \in {<<"y">>, <<"y", "e", "s">>}

\* input(...).strip() != "YES" is false
AcceptsDangerous(line) == Strip(line) = <<"Y", "E", "S">>

\* a faulty variant of AcceptsYes: the answer is not lowered
AcceptsYesExactCase(line) == Strip(line) \in {<<"y">>, <<"y", "e", "s">>}

\* input(...).lower().strip() in ("y", "yes")
AcceptsYes(line) == Strip(Lower(line)) \in {<<"y">>, <<"y", "e", "s">>}

\* a faulty variant of AcceptsImproved: the improved command is classified
\* and a dangerous one needs "YES"
AcceptsImprovedClassified(c, line) ==
  IF is_dangerous(c) THEN AcceptsDangerous(line) ELSE AcceptsYes(line)

\* the gate of the improved command: confirm2 in ("y", "yes"), whatever the
\* command is
AcceptsImproved(c, line) == AcceptsYes(line)

\* what input() returned at a prompt
Answer(p, line) == <<[line |-> line, prompt |-> p]>>

(***************************************************************************)
(* The invocation                                                          *)
(***************************************************************************)

VARIABLES
  stateFile,   \* STATE_PATH: <<>> when absent, else <<record>>
  history,     \* HIST_PATH: the (task, cmd) pairs appended so far
  runs,        \* invocations started
  pc,          \* where the running invocation is
  args,        \* the parsed arguments
  state,       \* what load_state returned at the start
  task, cmd, prev_cmd, problem, improved,
  prompt,      \* the prompt of the latest backend call
  ncalls,      \* backend calls made by this invocation
  lastInput,   \* <<>>, or the prompt and the line of the input() call the
               \* process has just returned from
  completed,   \* subprocess.run's result for the generated command
  rc2,         \* the improved command's exit code
  executed,    \* the commands handed to the shell by this invocation
  status,      \* the process exit status
  outcome,     \* which exit was taken
  file0, hist0, \* the two files as the invocation found them
  histWritable, \* whether open(HIST_PATH, "a") succeeds
  norm,        \* a string followed by its successive normalizations
  trip,        \* a state record on its way through save, load and save
  conc         \* two invocations at once: the files and the processes

vars ==
  << stateFile, history, runs, pc, args, state, task, cmd, prev_cmd, problem,
     improved, prompt, ncalls, lastInput, completed, rc2, executed, status,
     outcome, file0, hist0, histWritable, norm, trip, conc >>

NoArgs ==
  [ cmd |-> <<>>, mode |-> "none", no_history |-> FALSE, task |-> <<>>,
    use_last |-> FALSE, why |-> <<>> ]

NoCompletion == [returncode |-> 0, stderr |-> <<>>]

\* no invocation yet, no state file, an empty and writable history log
Fresh ==
  /\ stateFile = <<>>
  /\ history = <<>>
  /\ runs = 0
  /\ pc = "idle"
  /\ args = NoArgs
  /\ state = <<>>
  /\ task = <<>> /\ cmd = <<>> /\ prev_cmd = <<>> /\ problem = <<>>
  /\ improved = <<>>
  /\ prompt = NoPrompt
  /\ ncalls = 0
  /\ lastInput = <<>>
  /\ completed = NoCompletion
  /\ rc2 = 0
  /\ executed = <<>>
  /\ status = 0
  /\ outcome = "none"
  /\ file0 = <<>>
  /\ hist0 = <<>>
  /\ histWritable = TRUE

\* no record is on a round trip
NoTrip ==
  [disk |-> <<>>, first |-> <<>>, given |-> <<>>, loaded |-> <<>>, stage |-> "none"]

\* no concurrent invocations
NoConc ==
  [ disk |-> <<>>, log |-> <<>>, now |-> 1, procs |-> <<>>, saves |-> {},
    starts |-> 0 ]

Init == Fresh /\ norm = <<>> /\ trip = NoTrip /\ conc = NoConc

\* parse_args and load_state: a new process starts
Start(a) ==
  /\ pc \in {"idle", "done"}
  /\ runs < MaxRuns
  /\ runs' = runs + 1
  /\ args' = a
  /\ state' = load_state(stateFile)
  /\ file0' = stateFile
  /\ hist0' = history
  /\ improved' = <<>>
  /\ lastInput' = <<>>
  /\ completed' = NoCompletion
  /\ rc2' = 0
  /\ executed' = <<>>
  /\ UNCHANGED <<histWritable, norm, trip, conc>>

\* sys.exit(n), or the return from main (n = 0)
Exit(n, why) ==
  /\ pc' = "done"
  /\ status' = n
  /\ outcome' = why

\* the process goes on
Running == status' = 0 /\ outcome' = "none"

\* an invocation that ends before it generates anything
Refused(n, why) ==
  /\ Exit(n, why)
  /\ task' = <<>> /\ cmd' = <<>> /\ prev_cmd' = <<>> /\ problem' = <<>>
  /\ prompt' = NoPrompt
  /\ ncalls' = 0
  /\ UNCHANGED <<stateFile, history>>

\* a backend call is started with prompt p
Calls(p, at) ==
  /\ prompt' = p
  /\ ncalls' = ncalls + 1
  /\ pc' = at
  /\ Running

\* a faulty variant of NeedsContext: without --use-last and without a task
\* argument, a stored task is taken as the fallback
NeedsContextWithFallback(a, st) ==
  \/ a.use_last /\ (Missing(st, "task") \/ Missing(st, "cmd"))
  \/ ~a.use_last /\ a.task = <<>> /\ Missing(st, "task")

\* the two sys.exit(1) of refine mode: --use-last without a stored task and
\* command, or neither --use-last nor a task argument
NeedsContext(a, st) ==
  \/ a.use_last /\ (Missing(st, "task") \/ Missing(st, "cmd"))
  \/ ~a.use_last /\ a.task = <<>>

\* --mode refine, up to the call of refine()
StartRefine(a) ==
  /\ a.mode = "refine"
  /\ Start(a)
  /\ LET st == load_state(stateFile)
         t == IF a.use_last THEN st.task ELSE Join(a.task)
         prev == IF a.use_last THEN st.cmd ELSE Get(st, "cmd")
         prob == IF a.use_last /\ a.why = <<>> THEN Get(st, "last_error")
                                               ELSE a.why
     IN  IF NeedsContext(a, st)
           THEN Refused(1, "MissingContext")
         ELSE /\ task' = t
              /\ prev_cmd' = prev
              /\ problem' = prob
              /\ cmd' = <<>>
              /\ prompt' = RefinePrompt(t, prev, prob)
              /\ ncalls' = 1
              /\ pc' = "refine_call"
              /\ Running
              /\ UNCHANGED <<stateFile, history>>

\* save_history is reached and open(HIST_PATH, "a") raises OSError
AppendRaises == ~args.no_history /\ ~histWritable

\* an exception that nothing catches: the traceback is printed and the
\* interpreter exits with status 1; what was to follow is not done
Uncaught ==
  /\ Exit(1, "UncaughtException")
  /\ UNCHANGED <<stateFile, history>>

\* a generated command is logged (unless --no-history), persisted and printed
Accepts(c) ==
  /\ cmd' = c
  /\ IF AppendRaises THEN Uncaught
     ELSE /\ history' = LogUnlessSuppressed(history, args.no_history, task, c)
          /\ stateFile' = save_state(task, c, None, None)
          /\ Exit(0, "ok")

\* refine() returns or exits; then save_history, save_state, print
RefineReturn(r) ==
  /\ pc = "refine_call"
  /\ IF ~r.ok
       THEN Exit(1, "BackendError") /\ UNCHANGED <<cmd, stateFile, history>>
     ELSE IF Unusable(Generate(r))
       THEN /\ Exit(2, "EmptyOrMultilineResult")
            /\ UNCHANGED <<cmd, stateFile, history>>
     ELSE Accepts(Generate(r))
  /\ UNCHANGED << runs, args, state, task, prev_cmd, problem, improved, prompt,
                  ncalls, lastInput, completed, rc2, executed, file0, hist0,
                  histWritable, norm, trip, conc >>

\* --mode suggest, up to the call of suggest()
StartSuggest(a) ==
  /\ a.mode = "suggest"
  /\ Start(a)
  /\ IF a.task = <<>>
       THEN Refused(1, "MissingTask")
       ELSE /\ task' = Join(a.task)
            /\ cmd' = <<>> /\ prev_cmd' = <<>> /\ problem' = <<>>
            /\ prompt' = SuggestPrompt(Join(a.task))
            /\ ncalls' = 1
            /\ pc' = "suggest_call"
            /\ Running
            /\ UNCHANGED <<stateFile, history>>

\* suggest() returns or exits; then save_history, save_state, print
SuggestReturn(r) ==
  /\ pc = "suggest_call"
  /\ IF ~r.ok
       THEN Exit(1, "BackendError") /\ UNCHANGED <<cmd, stateFile, history>>
     ELSE IF Unusable(Generate(r))
       THEN /\ Exit(2, "EmptyOrMultilineResult")
            /\ UNCHANGED <<cmd, stateFile, history>>
     ELSE Accepts(Generate(r))
  /\ UNCHANGED << runs, args, state, task, prev_cmd, problem, improved, prompt,
                  ncalls, lastInput, completed, rc2, executed, file0, hist0,
                  histWritable, norm, trip, conc >>

\* a faulty variant of ExplainCommand: the stored command is preferred
ExplainCommandStoredFirst(a, st) ==
  IF Get(st, "cmd") # <<>> THEN Get(st, "cmd") ELSE Strip(a.cmd)

\* cmd = args.cmd.strip(); if not cmd: cmd = state.get("cmd", "")
ExplainCommand(a, st) ==
  IF Strip(a.cmd) # <<>> THEN Strip(a.cmd) ELSE Get(st, "cmd")

\* --mode explain, up to the call of explain()
StartExplain(a) ==
  /\ a.mode = "explain"
  /\ Start(a)
  /\ LET st == load_state(stateFile)
         c == ExplainCommand(a, st)
     IN  IF c = <<>>
           THEN Refused(1, "MissingCommand")
           ELSE /\ cmd' = c
                /\ task' = <<>> /\ prev_cmd' = <<>> /\ problem' = <<>>
                /\ prompt' = ExplainPrompt(c)
                /\ ncalls' = 1
                /\ pc' = "explain_call"
                /\ Running
                /\ UNCHANGED <<stateFile, history>>

\* explain() returns or exits; the explanation is printed
ExplainReturn(r) ==
  /\ pc = "explain_call"
  /\ IF ~r.ok THEN Exit(1, "BackendError") ELSE Exit(0, "ok")
  /\ UNCHANGED << stateFile, history, runs, args, state, task, cmd, prev_cmd,
                  problem, improved, prompt, ncalls, lastInput, completed, rc2,
                  executed, file0, hist0, histWritable, norm, trip, conc >>

\* --mode run, up to the call of suggest()
StartRun(a) ==
  /\ a.mode = "run"
  /\ Start(a)
  /\ IF a.task = <<>>
       THEN Refused(1, "MissingTask")
       ELSE /\ task' = Join(a.task)
            /\ cmd' = <<>> /\ prev_cmd' = <<>> /\ problem' = <<>>
            /\ prompt' = SuggestPrompt(Join(a.task))
            /\ ncalls' = 1
            /\ pc' = "run_call"
            /\ Running
            /\ UNCHANGED <<stateFile, history>>

\* suggest() returns or exits; the command is classified and a prompt is shown
RunReturn(r) ==
  /\ pc = "run_call"
  /\ IF ~r.ok
       THEN Exit(1, "BackendError") /\ UNCHANGED cmd
     ELSE IF Unusable(Generate(r))
       THEN Exit(2, "EmptyOrMultilineResult") /\ UNCHANGED cmd
     ELSE /\ cmd' = Generate(r)
          /\ pc' = IF is_dangerous(Generate(r)) THEN "confirm_dangerous"
                                                ELSE "confirm_normal"
          /\ Running
  /\ UNCHANGED << stateFile, history, runs, args, state, task, prev_cmd, problem,
                  improved, prompt, ncalls, lastInput, completed, rc2, executed,
                  file0, hist0, histWritable, norm, trip, conc >>

\* the command is handed to the shell: subprocess.run is called
Runs(c, at) ==
  /\ executed' = Append(executed, c)
  /\ pc' = at
  /\ Running

\* the answer to "Type 'YES' to run anyway: "
ConfirmDangerous(line) ==
  /\ pc = "confirm_dangerous"
  /\ lastInput' = Answer("dangerous", line)
  /\ IF AcceptsDangerous(line)
       THEN Runs(cmd, "execute") /\ UNCHANGED stateFile
       ELSE /\ stateFile' = save_state(task, cmd, None, None)
            /\ Exit(3, "DeclinedDangerous")
            /\ UNCHANGED executed
  /\ UNCHANGED << history, runs, args, state, task, cmd, prev_cmd, problem,
                  improved, prompt, ncalls, completed, rc2, file0, hist0,
                  histWritable, norm, trip, conc >>

\* the answer to "Run this command? [y/N]: "
ConfirmNormal(line) ==
  /\ pc = "confirm_normal"
  /\ lastInput' = Answer("normal", line)
  /\ IF AcceptsYes(line)
       THEN Runs(cmd, "execute") /\ UNCHANGED stateFile
       ELSE /\ stateFile' = save_state(task, cmd, None, None)
            /\ Exit(0, "DeclinedNormal")
            /\ UNCHANGED executed
  /\ UNCHANGED << history, runs, args, state, task, cmd, prev_cmd, problem,
                  improved, prompt, ncalls, completed, rc2, file0, hist0,
                  histWritable, norm, trip, conc >>

\* a faulty variant of FailureError: the error text is not kept
FailureErrorDropped(res) == None

\* last_error=completed.stderr.strip()
FailureError(res) == Some(Strip(res.stderr))

\* a faulty variant of FailureStatus: a fixed failure status
FailureStatusOne(res) == 1

\* sys.exit(rc) when the refine offer is declined
FailureStatus(res) == res.returncode

\* a faulty variant of ImprovedError: the text of a stderr that was not captured
ImprovedErrorEmpty(code) == Some(<<>>)

\* last_error=f"exit {e.returncode}"
ImprovedError(code) == Some(<<"e", "x", "i", "t", " ">> \o Decimal(code))

\* subprocess.run returns: success is logged and persisted, failure is
\* persisted and the refine offer is shown
Execute(res) ==
  /\ pc = "execute"
  /\ completed' = res
  /\ lastInput' = <<>>
  /\ IF res.returncode = 0
       THEN IF AppendRaises THEN Uncaught
            ELSE /\ history' =
                      LogUnlessSuppressed(history, args.no_history, task, cmd)
                 /\ stateFile' = save_state(task, cmd, Some(<<>>), Some(0))
                 /\ Exit(0, "ok")
       ELSE /\ stateFile' = save_state(task, cmd, FailureError(res),
                                       Some(res.returncode))
            /\ pc' = "refine_offer"
            /\ Running
            /\ UNCHANGED history
  /\ UNCHANGED << runs, args, state, task, cmd, prev_cmd, problem, improved,
                  prompt, ncalls, rc2, executed, file0, hist0,
                  histWritable, norm, trip, conc >>

\* the answer to "Refine based on this error? [y/N]: "
RefineOffer(line) ==
  /\ pc = "refine_offer"
  /\ lastInput' = Answer("refine", line)
  /\ IF AcceptsYes(line)
       THEN Calls(RefinePrompt(task, cmd, completed.stderr), "improve_call")
       ELSE /\ Exit(FailureStatus(completed), "CommandFailed")
            /\ UNCHANGED <<prompt, ncalls>>
  /\ UNCHANGED << stateFile, history, runs, args, state, task, cmd, prev_cmd,
                  problem, improved, completed, rc2, executed, file0, hist0,
                  histWritable, norm, trip, conc >>

\* refine() returns or exits; the improved command is shown with a prompt
ImproveReturn(r) ==
  /\ pc = "improve_call"
  /\ lastInput' = <<>>
  /\ IF ~r.ok
       THEN Exit(1, "BackendError") /\ UNCHANGED improved
     ELSE IF Unusable(Generate(r))
       THEN Exit(2, "EmptyOrMultilineResult") /\ UNCHANGED improved
     ELSE /\ improved' = Generate(r)
          /\ pc' = "confirm_improved"
          /\ Running
  /\ UNCHANGED << stateFile, history, runs, args, state, task, cmd, prev_cmd,
                  problem, prompt, ncalls, completed, rc2, executed, file0,
                  hist0, histWritable, norm, trip, conc >>

\* the answer to "Run improved command? [y/N]: "
ConfirmImproved(line) ==
  /\ pc = "confirm_improved"
  /\ lastInput' = Answer("improved", line)
  /\ IF AcceptsImproved(improved, line)
       THEN Runs(improved, "execute_improved") /\ UNCHANGED stateFile
       ELSE /\ stateFile' = save_state(task, improved, None, None)
            /\ Exit(0, "DeclinedImproved")
            /\ UNCHANGED executed
  /\ UNCHANGED << history, runs, args, state, task, cmd, prev_cmd, problem,
                  improved, prompt, ncalls, completed, rc2, file0, hist0,
                  histWritable, norm, trip, conc >>

\* subprocess.run(..., check=True) returns or raises CalledProcessError
ExecuteImproved(code) ==
  /\ pc = "execute_improved"
  /\ rc2' = code
  /\ lastInput' = <<>>
  /\ IF code = 0
       THEN IF AppendRaises THEN Uncaught
            ELSE /\ history' = LogUnlessSuppressed(history, args.no_history,
                                                    task, improved)
                 /\ stateFile' = save_state(task, improved, Some(<<>>), Some(0))
                 /\ Exit(0, "ok")
       ELSE /\ stateFile' =
                 save_state(task, improved, ImprovedError(code), Some(code))
            /\ Exit(code, "ImprovedFailed")
            /\ UNCHANGED history
  /\ UNCHANGED << runs, args, state, task, cmd, prev_cmd, problem, improved,
                  prompt, ncalls, completed, executed, file0, hist0,
                  histWritable, norm, trip, conc >>

Next ==
  \/ \E t \in TaskArgs, nh \in BOOLEAN, ul \in BOOLEAN, w \in WhyArgs :
       StartRefine(Args("refine", t, nh, ul, w, <<>>))
  \/ \E r \in BackendResults : RefineReturn(r)
  \/ \E t \in TaskArgs, nh \in BOOLEAN :
       StartSuggest(Args("suggest", t, nh, FALSE, <<>>, <<>>))
  \/ \E r \in BackendResults : SuggestReturn(r)
  \/ \E c \in CmdArgs, nh \in BOOLEAN :
       StartExplain(Args("explain", <<>>, nh, FALSE, <<>>, c))
  \/ \E r \in BackendResults : ExplainReturn(r)
  \/ \E t \in TaskArgs, nh \in BOOLEAN :
       StartRun(Args("run", t, nh, FALSE, <<>>, <<>>))
  \/ \E r \in BackendResults : RunReturn(r)
  \/ \E line \in ConfirmInputs : ConfirmDangerous(line)
  \/ \E line \in ConfirmInputs : ConfirmNormal(line)
  \/ \E res \in Completions : Execute(res)
  \/ \E line \in ChoiceInputs : RefineOffer(line)
  \/ \E r \in BackendResults : ImproveReturn(r)
  \/ \E line \in ConfirmInputs : ConfirmImproved(line)
  \/ \E code \in ImprovedCodes : ExecuteImproved(code)

Spec == Init /\ [][Next]_vars

(***************************************************************************)
(* The same program where the history log can become unwritable            *)
(***************************************************************************)

\* HIST_PATH becomes unwritable (permissions, a full disk, a directory in
\* its place): open(HIST_PATH, "a") raises OSError from now on
HistoryBreaks ==
  /\ histWritable
  /\ histWritable' = FALSE
  /\ UNCHANGED << stateFile, history, runs, pc, args, state, task, cmd,
                  prev_cmd, problem, improved, prompt, ncalls, lastInput,
                  completed, rc2, executed, status, outcome, file0, hist0, norm, trip, conc >>

\* HIST_PATH is writable again
HistoryRepaired ==
  /\ ~histWritable
  /\ histWritable' = TRUE
  /\ UNCHANGED << stateFile, history, runs, pc, args, state, task, cmd,
                  prev_cmd, problem, improved, prompt, ncalls, lastInput,
                  completed, rc2, executed, status, outcome, file0, hist0, norm, trip, conc >>

NextFaulty == Next \/ HistoryBreaks \/ HistoryRepaired

SpecFaulty == Init /\ [][NextFaulty]_vars

(***************************************************************************)
(* normalize_one_line applied to the strings made of a few tokens          *)
(***************************************************************************)

\* tokens in an input string
MaxLen == 5

\* applications of normalize_one_line to one string
MaxPasses == 2

\* a code fence, a backtick, a word character, a space, a newline
Tokens == {Fence, <<BT>>, <<"a">>, <<" ">>, <<"\n">>}

RECURSIVE Flatten(_)
Flatten(ts) == IF ts = <<>> THEN <<>> ELSE Head(ts) \o Flatten(Tail(ts))

\* the strings normalize_one_line is given
Inputs == {Flatten(ts) : ts \in UNION {[1..n -> Tokens] : n \in 0..MaxLen}}

InitNormalize ==
  Fresh /\ norm \in {<<s>> : s \in Inputs} /\ trip = NoTrip /\ conc = NoConc

\* normalize_one_line is called on the latest string
Normalize ==
  /\ Len(norm) <= MaxPasses
  /\ norm' = Append(norm, normalize_one_line(norm[Len(norm)]))
  /\ UNCHANGED << stateFile, history, runs, pc, args, state, task, cmd,
                  prev_cmd, problem, improved, prompt, ncalls, lastInput,
                  completed, rc2, executed, status, outcome, file0, hist0,
                  histWritable, trip, conc >>

NextNormalize == Normalize

SpecNormalize == InitNormalize /\ [][NextNormalize]_vars

(***************************************************************************)
(* save_state, load_state and save_state again, on the file's text         *)
(***************************************************************************)

TASK == <<"t", "a", "s", "k">>
CMD == <<"c", "m", "d">>
LAST_ERROR == <<"l", "a", "s", "t", "_", "e", "r", "r", "o", "r">>
EXIT_CODE == <<"e", "x", "i", "t", "_", "c", "o", "d", "e">>
TIMESTAMP == <<"t", "i", "m", "e", "s", "t", "a", "m", "p">>

\* not v, of a str or an int
Falsy(v) == v = PyStr(<<>>) \/ v = PyInt(0)

\* the dict save_state builds: last_error or "", exit_code if it is not None
\* else "", and the time of the call
StateData(t, c, last_error, exit_code, ts) ==
  << <<TASK, t>>,
     <<CMD, c>>,
     <<LAST_ERROR, IF last_error.some /\ ~Falsy(last_error.val)
                     THEN last_error.val ELSE PyStr(<<>>)>>,
     <<EXIT_CODE, IF exit_code.some THEN exit_code.val ELSE PyStr(<<>>)>>,
     <<TIMESTAMP, PyStr(ts)>> >>

\* STATE_PATH.write_text(json.dumps(data, indent=2))
write_state(t, c, last_error, exit_code, ts) ==
  <<json_dumps(StateData(t, c, last_error, exit_code, ts))>>

\* load_state on the file's text: {} when the file is absent or json.loads
\* raises
read_state(disk) ==
  IF disk = <<>> THEN <<>>
  ELSE IF json_loads(disk[1]).ok THEN json_loads(disk[1]).val
  ELSE <<>>

\* the strs given as task, command and error text
TripTexts ==
  { <<>>, <<"a">>, <<QUOTE>>, <<BACKSLASH, "n">>, <<"a", "\n", QUOTE, ",">> }

\* the exit codes given: absent, zero, nonzero, of several digits, negative
TripCodes == {None, Some(PyInt(0)), Some(PyInt(3)), Some(PyInt(127)), Some(PyInt(-9))}

\* datetime.now().isoformat(timespec="seconds") at two moments, in order
Ticks == << <<"T", "1">>, <<"T", "2">> >>

Clock == {Ticks[n] : n \in 1..Len(Ticks)}

Givens ==
  { [cmd |-> PyStr(c), exit_code |-> x, last_error |-> e, task |-> PyStr(t)] :
      c \in TripTexts, x \in TripCodes,
      e \in {None} \cup {Some(PyStr(str)) : str \in TripTexts},
      t \in TripTexts }

InitRoundTrip ==
  /\ Fresh
  /\ norm = <<>>
  /\ conc = NoConc
  /\ trip \in { [disk |-> <<>>, first |-> <<>>, given |-> g, loaded |-> <<>>,
                  stage |-> "given"] : g \in Givens }

\* no invocation of main takes a step
NoInvocation ==
  UNCHANGED << stateFile, history, runs, pc, args, state, task, cmd, prev_cmd,
               problem, improved, prompt, ncalls, lastInput, completed, rc2,
               executed, status, outcome, file0, hist0, histWritable, norm >>

\* save_state(task, cmd, last_error, exit_code) at time ts
SaveGiven(ts) ==
  /\ trip.stage = "given"
  /\ NoInvocation /\ UNCHANGED conc
  /\ LET g == trip.given
     IN  trip' =
           [ trip EXCEPT
               !.disk = write_state(g.task, g.cmd, g.last_error, g.exit_code, ts),
               !.first = StateData(g.task, g.cmd, g.last_error, g.exit_code, ts),
               !.stage = "saved" ]

\* state = load_state()
LoadSaved ==
  /\ trip.stage = "saved"
  /\ NoInvocation /\ UNCHANGED conc
  /\ trip' = [trip EXCEPT !.loaded = read_state(trip.disk), !.stage = "loaded"]

\* save_state(state["task"], state["cmd"], state["last_error"],
\* state["exit_code"]) at time ts; a missing key raises KeyError
SaveLoaded(ts) ==
  /\ trip.stage = "loaded"
  /\ NoInvocation /\ UNCHANGED conc
  /\ LET d == trip.loaded
     IN  IF \E k \in {TASK, CMD, LAST_ERROR, EXIT_CODE} : ~Has(d, k)
           THEN trip' = [trip EXCEPT !.stage = "error"]
           ELSE trip' =
                  [ trip EXCEPT
                      !.disk = write_state(Lookup(d, TASK), Lookup(d, CMD),
                                           Some(Lookup(d, LAST_ERROR)),
                                           Some(Lookup(d, EXIT_CODE)), ts),
                      !.stage = "resaved" ]

NextRoundTrip ==
  \/ \E ts \in Clock : SaveGiven(ts)
  \/ LoadSaved
  \/ \E ts \in Clock : SaveLoaded(ts)

SpecRoundTrip == InitRoundTrip /\ [][NextRoundTrip]_vars

(***************************************************************************)
(* Two invocations at once on the one state file                           *)
(***************************************************************************)

\* invocations started in one behaviour
MaxStarts == 3

Procs == {1, 2}

\* " ".join(args.task) of the suggest invocations
ConcTasks == {<<"a">>, <<"b", " ", "b">>}

\* what the backend prints, or its failure
ConcResults ==
  { [ok |-> FALSE, out |-> <<>>],
    [ok |-> TRUE, out |-> <<"\n">>],
    [ok |-> TRUE, out |-> <<"l", "s", "\n">>] }

IdleProc ==
  [ cmd |-> <<>>, data |-> <<>>, mode |-> "none", pc |-> "idle",
    prev_cmd |-> <<>>, stale |-> FALSE, state |-> <<>>, status |-> 0,
    task |-> <<>> ]

InitConcurrent ==
  /\ Fresh
  /\ norm = <<>>
  /\ trip = NoTrip
  /\ conc = [ disk |-> <<>>, log |-> <<>>, now |-> 1,
              procs |-> [i \in Procs |-> IdleProc], saves |-> {}, starts |-> 0 ]

\* not state.get(k)
Absent(d, k) == ~Has(d, k) \/ Falsy(Lookup(d, k))

\* a faulty variant of UseLast: the state file is read again
UseLastReloaded(st, disk) == read_state(disk)

\* the dict --use-last takes the task and the command from: the one
\* load_state returned when the invocation started
UseLast(st, disk) == st

\* write(2) at offset 0 of a file that holds old and is not truncated by it
Overlay(old, new) == new \o SubSeq(old, Len(new) + 1, Len(old))

\* process i runs on; the other process and the files stay as they are
ProcStep(i, p) == conc' = [conc EXCEPT !.procs[i] = p]

\* parse_args and load_state: process i starts as --mode suggest with a task
\* or as --mode refine --use-last
CStart(i, m, t) ==
  /\ conc.procs[i].pc \in {"idle", "done"}
  /\ conc.starts < MaxStarts
  /\ conc' = [ conc EXCEPT
                 !.starts = @ + 1,
                 !.procs[i] = [ IdleProc EXCEPT
                                  !.mode = m,
                                  !.pc = "loaded",
                                  !.state = read_state(conc.disk),
                                  !.task = IF m = "suggest" THEN t ELSE <<>> ] ]
  /\ NoInvocation /\ UNCHANGED trip

\* the task and the previous command are settled; refine --use-last without
\* a stored task and command exits with status 1
CContext(i) ==
  LET p == conc.procs[i]
      st == UseLast(p.state, conc.disk)
  IN  /\ p.pc = "loaded"
      /\ IF p.mode = "suggest" THEN ProcStep(i, [p EXCEPT !.pc = "call"])
         ELSE IF Absent(st, TASK) \/ Absent(st, CMD)
           THEN ProcStep(i, [p EXCEPT !.pc = "done", !.status = 1])
         ELSE ProcStep(i, [p EXCEPT !.pc = "call",
                                    !.task = Lookup(st, TASK).str,
                                    !.prev_cmd = Lookup(st, CMD).str])
      /\ NoInvocation /\ UNCHANGED trip

\* suggest() or refine() returns or exits; then save_history
CReturn(i, r) ==
  LET p == conc.procs[i]
  IN  /\ p.pc = "call"
      /\ IF ~r.ok THEN ProcStep(i, [p EXCEPT !.pc = "done", !.status = 1])
         ELSE IF Unusable(Generate(r))
           THEN ProcStep(i, [p EXCEPT !.pc = "done", !.status = 2])
         ELSE conc' =
                [ conc EXCEPT
                    !.log = save_history(@, p.task, Generate(r)),
                    !.procs[i] = [p EXCEPT !.pc = "save", !.cmd = Generate(r)] ]
      /\ NoInvocation /\ UNCHANGED trip

\* save_state, first half: the dict is built at time n (the clock does not
\* go back) and the file is opened for writing and so truncated
COpen(i, n) ==
  LET p == conc.procs[i]
      data == StateData(PyStr(p.task), PyStr(p.cmd), None, None, Ticks[n])
  IN  /\ p.pc = "save"
      /\ n >= conc.now
      /\ conc' = [ conc EXCEPT
                     !.now = n,
                     !.disk = << <<>> >>,
                     !.procs[i] = [p EXCEPT !.pc = "write", !.data = data] ]
      /\ NoInvocation /\ UNCHANGED trip

\* save_state, second half: the dict's text is written from the start of
\* the file; what the other process loaded is now out of date
CWrite(i) ==
  LET p == conc.procs[i]
      Outdated(q) ==
        IF q.pc \in {"loaded", "call", "save", "write"}
          THEN [q EXCEPT !.stale = TRUE] ELSE q
  IN  /\ p.pc = "write"
      /\ conc' =
           [ conc EXCEPT
               !.disk = <<Overlay(conc.disk[1], json_dumps(p.data))>>,
               !.saves = @ \cup {p.data},
               !.procs = [ j \in Procs |->
                             IF j = i THEN [p EXCEPT !.pc = "done", !.status = 0]
                             ELSE Outdated(conc.procs[j]) ] ]
      /\ NoInvocation /\ UNCHANGED trip

NextConcurrent ==
  \/ \E i \in Procs, t \in ConcTasks : CStart(i, "suggest", t)
  \/ \E i \in Procs : CStart(i, "refine", <<>>)
  \/ \E i \in Procs : CContext(i)
  \/ \E i \in Procs, r \in ConcResults : CReturn(i, r)
  \/ \E i \in Procs, n \in 1..Len(Ticks) : COpen(i, n)
  \/ \E i \in Procs : CWrite(i)

SpecConcurrent == InitConcurrent /\ [][NextConcurrent]_vars

(***************************************************************************)
(* Properties                                                              *)
(***************************************************************************)

YES == <<"Y", "E", "S">>
RM_RF_ROOT == <<"r", "m", " ", "-", "r", "f", " ", "/">>

Done == pc = "done"

\* the persisted record, when there is one
Stored == stateFile[1]

\* the line just read at one of the prompts ps
Answered(ps) == lastInput # <<>> /\ lastInput[1].prompt \in ps
Line == lastInput[1].line

\* the state record holds exactly these fields
Persisted(t, c, err, code) ==
  stateFile = <<[cmd |-> c, exit_code |-> code, last_error |-> err, task |-> t]>>

NoCode == [str |-> <<>>]
Code(n) == [int |-> n]

\* the invocation has not touched the state record or the history log
FilesUntouched == stateFile = file0 /\ history = hist0

\* C1: Scenario B. In run mode, when the backend's raw response is
\* "rm -rf /", the command is classified dangerous (it is never put to the
\* y/N prompt), and the answer "yes" to its prompt ends the invocation with
\* status 3, the state record holding the command, and nothing executed.
C1_ScenarioB ==
  (args.mode = "run" /\ cmd = RM_RF_ROOT) =>
    /\ is_dangerous(cmd)
    /\ pc # "confirm_normal"
    /\ (Answered({"dangerous", "normal"}) /\ Line = <<"y", "e", "s">>) =>
         /\ Done /\ status = 3
         /\ Stored.cmd = RM_RF_ROOT
         /\ executed = <<>>

\* C2 as stated: in run mode, a command the classifier flags is executed
\* only if the confirmation line is exactly "YES"; any other line ends the
\* invocation with status 3, nothing executed, the state record holding the
\* task and the command with empty error and no exit code, and no history
\* appended.
C2_LiteralLineOnly ==
  (Answered({"dangerous", "normal"}) /\ is_dangerous(cmd)) =>
    IF Line = YES
      THEN TRUE
      ELSE /\ Done /\ status = 3
           /\ executed = <<>>
           /\ Persisted(task, cmd, <<>>, NoCode)
           /\ history = hist0

\* C2, amended: in run mode, a command the classifier flags is executed if
\* and only if the confirmation line, with the whitespace around it
\* stripped, is exactly "YES"; any other line ends the invocation with
\* status 3, nothing executed, the state record holding the task and the
\* command with empty error and no exit code, and no history appended.
C2_DangerousGate ==
  (Answered({"dangerous", "normal"}) /\ is_dangerous(cmd)) =>
    IF Strip(Line) = YES
      THEN pc = "execute" /\ executed = <<cmd>> /\ FilesUntouched
      ELSE /\ Done /\ status = 3
           /\ executed = <<>>
           /\ Persisted(task, cmd, <<>>, NoCode)
           /\ history = hist0

\* a flagged command was declined with the answer "yes"
C2_Witness ==
  /\ Answered({"dangerous"}) /\ is_dangerous(cmd)
  /\ Line = <<"y", "e", "s">>
  /\ Done /\ status = 3

\* C3 as stated: in run mode, a command the classifier does not flag is
\* executed only if the confirmation line is "y" or "yes" in some letter
\* case; any other line ends the invocation with status 0, nothing executed,
\* and the state record holding the task and the command.
C3_LetterCaseOnly ==
  (Answered({"dangerous", "normal"}) /\ ~is_dangerous(cmd)) =>
    IF Lower(Line) \in {<<"y">>, <<"y", "e", "s">>}
      THEN TRUE
      ELSE /\ Done /\ status = 0
           /\ executed = <<>>
           /\ Persisted(task, cmd, <<>>, NoCode)

\* C3, amended: in run mode, a command the classifier does not flag is
\* executed if and only if the confirmation line, lowered and with the
\* whitespace around it stripped, is "y" or "yes"; any other line ends the
\* invocation with status 0 (not the dangerous-decline status 3), nothing
\* executed, and the state record holding the task and the command.
C3_NormalGate ==
  (Answered({"dangerous", "normal"}) /\ ~is_dangerous(cmd)) =>
    IF Strip(Lower(Line)) \in {<<"y">>, <<"y", "e", "s">>}
      THEN pc = "execute" /\ executed = <<cmd>> /\ FilesUntouched
      ELSE /\ Done /\ status = 0 /\ status # 3
           /\ executed = <<>>
           /\ Persisted(task, cmd, <<>>, NoCode)

\* an unflagged command was accepted with the answer "YES"
C3_Witness ==
  /\ Answered({"normal"}) /\ ~is_dangerous(cmd)
  /\ Line = YES
  /\ pc = "execute" /\ executed = <<cmd>>

\* C4 as stated: the improved command is executed if and only if the answer
\* to the second prompt is "y" or "yes" in some letter case, whether or not
\* the improved command matches a danger pattern.
C4_LetterCaseOnly ==
  Answered({"improved"}) =>
    ((pc = "execute_improved") <=> (Lower(Line) \in {<<"y">>, <<"y", "e", "s">>}))

\* C4, amended: the improved command goes through the y/yes gate alone and
\* is not classified: it is executed if and only if the answer to the second
\* prompt, lowered and with the whitespace around it stripped, is "y" or
\* "yes", whether or not the improved command matches a danger pattern.
C4_ImprovedGate ==
  Answered({"improved"}) =>
    IF Strip(Lower(Line)) \in {<<"y">>, <<"y", "e", "s">>}
      THEN pc = "execute_improved" /\ executed = <<cmd, improved>>
      ELSE Done /\ executed = <<cmd>>

\* an improved command that matches a danger pattern runs on the answer "Y"
C4_Witness ==
  /\ Answered({"improved"}) /\ Line = <<"Y">>
  /\ is_dangerous(improved)
  /\ pc = "execute_improved" /\ executed = <<cmd, improved>>

\* the generated command was executed and exited nonzero
InitialFailed ==
  args.mode = "run" /\ executed # <<>> /\ pc # "execute"
    /\ completed.returncode # 0

\* C5 as stated: in run mode, whenever the execution of the generated
\* command exits nonzero, the process exit status is that exit code (read
\* here of the invocations that do not end on a failed generation).
C5_AlwaysOwnCode ==
  (Done /\ InitialFailed /\ (Answered({"refine"}) \/ improved # <<>>)) =>
    status = completed.returncode

\* C5, amended: in run mode, when the generated command exits nonzero and the
\* refine offer is declined, the exit status is that exit code; when the
\* refinement's generation fails, it is 1 or 2; when the improved command is
\* executed and exits nonzero, it is the improved command's exit code; and
\* exit status 0 means that the last command executed exited 0, or that the
\* y/N prompt of the initial command or of the improved command was declined.
C5_ExitStatus ==
  (Done /\ args.mode = "run") =>
    /\ (InitialFailed /\ Answered({"refine"})) =>
         status = completed.returncode /\ status # 0
    /\ (InitialFailed /\ ncalls = 2 /\ improved = <<>>) => status \in {1, 2}
    /\ (Len(executed) = 2 /\ rc2 # 0) => status = rc2
    /\ status = 0 =>
         \/ Len(executed) = 1 /\ completed.returncode = 0
         \/ Len(executed) = 2 /\ rc2 = 0
         \/ Answered({"normal", "improved"})

\* the generated command exited 3 and the refine offer was declined
C5_Witness ==
  /\ Done /\ InitialFailed /\ Answered({"refine"})
  /\ completed.returncode = 3 /\ status = 3
\* the refine offer is shown, or has just been declined
AtRefineOffer == pc = "refine_offer" \/ (Done /\ Answered({"refine"}))

\* C6 as stated: in run mode, when the accepted command exits with a nonzero
\* code rc and standard error text e, the state record holds the command,
\* last_error = e and exit_code = rc when the refine offer is made, and when
\* the offer is declined the process exits with status rc and the record
\* still holds them.
C6_ErrorTextKept ==
  AtRefineOffer =>
    /\ Persisted(task, cmd, completed.stderr, Code(completed.returncode))
    /\ Done => status = completed.returncode

\* C6, amended: in run mode, when the accepted command exits with a nonzero
\* code rc and standard error text e, the state record holds the command,
\* last_error = e with the whitespace around it stripped, and exit_code = rc
\* when the refine offer is made, and when the offer is declined the process
\* exits with status rc and the record still holds them.
C6_FailurePersisted ==
  AtRefineOffer =>
    /\ completed.returncode # 0
    /\ Persisted(task, cmd, Strip(completed.stderr), Code(completed.returncode))
    /\ Done => status = completed.returncode

\* Scenario C: exit code 1 with an error text, the offer declined
C6_Witness ==
  /\ Done /\ Answered({"refine"})
  /\ completed = [returncode |-> 1, stderr |-> <<"e">>]
  /\ status = 1
  /\ Stored.last_error = <<"e">> /\ Stored.exit_code = Code(1)

\* the accepted generated command has exited with code zero
InitialSucceeded ==
  Done /\ args.mode = "run" /\ executed = <<cmd>> /\ completed.returncode = 0

\* C7: in run mode, when the accepted command exits with code zero, the
\* (task, command) pair is appended to the history unless history is
\* suppressed, the state record holds the task and the command with an
\* empty error and exit code 0, and the process exits with status 0.
C7_Success ==
  InitialSucceeded =>
    /\ history = IF args.no_history THEN hist0
                 ELSE Append(hist0, [cmd |-> cmd, task |-> task])
    /\ Persisted(task, cmd, <<>>, Code(0))
    /\ status = 0

\* a successful run with history suppressed, after an invocation that logged
C7_Witness ==
  InitialSucceeded /\ args.no_history /\ hist0 # <<>> /\ history = hist0

\* C8: in the refinement branch of run mode, once the improved command is
\* obtained: executed with exit 0, the state record holds it with empty
\* error and exit code 0, the history is appended unless suppressed, and the
\* status is 0; executed with exit rc2 # 0, the record holds it with a
\* non-empty error and exit code rc2, and the status is rc2; declined, the
\* record holds it with empty error and no exit code, no history is
\* appended, and the status is 0.
C8_Refinement ==
  (Done /\ improved # <<>>) =>
    IF Len(executed) = 2
      THEN IF rc2 = 0
             THEN /\ Persisted(task, improved, <<>>, Code(0))
                  /\ history = IF args.no_history THEN hist0
                               ELSE Append(hist0, [cmd |-> improved, task |-> task])
                  /\ status = 0
             ELSE /\ Stored.task = task /\ Stored.cmd = improved
                  /\ Stored.last_error # <<>>
                  /\ Stored.exit_code = Code(rc2)
                  /\ history = hist0
                  /\ status = rc2
      ELSE /\ Answered({"improved"})
           /\ Persisted(task, improved, <<>>, NoCode)
           /\ history = hist0
           /\ status = 0

\* the improved command was executed and failed
C8_Witness ==
  /\ Done /\ improved # <<>> /\ Len(executed) = 2
  /\ rc2 = 2 /\ status = 2
  /\ Stored.last_error = <<"e", "x", "i", "t", " ", "2">>

\* no stored task or no stored command when the invocation started
NoPriorState ==
  file0 = <<>> \/ file0[1].task = <<>> \/ file0[1].cmd = <<>>

InRefine == args.mode = "refine" /\ pc # "idle"

\* C9: Scenario D. Refine mode with --use-last and no prior state (no stored
\* task or no stored command) exits with status 1 (MissingContext), calls
\* the backend never, and leaves the state record and the history log as
\* they were.
C9_UseLastWithoutState ==
  (InRefine /\ args.use_last /\ NoPriorState) =>
    /\ Done /\ status = 1 /\ outcome = "MissingContext"
    /\ ncalls = 0
    /\ FilesUntouched

\* --use-last refused over a state record that holds an empty task
C9_Witness ==
  /\ InRefine /\ args.use_last
  /\ file0 # <<>> /\ file0[1].task = <<>>
  /\ Done /\ status = 1

\* the Refine prompt has been built from t and the stored command
RefineBuilt(t) ==
  /\ ncalls = 1
  /\ prompt.kind = "Refine"
  /\ prompt.task = t
  /\ prompt.cmd = (IF file0 = <<>> THEN <<>> ELSE file0[1].cmd)

RefineRefused == Done /\ status = 1 /\ outcome = "MissingContext" /\ ncalls = 0

\* C10 as stated: refine mode fails with MissingContext exactly when
\* --use-last is given and no prior state exists, or when neither --use-last
\* nor new task text is given and no task is stored; in every other case it
\* builds the Refine prompt with the stored command as the previous command.
C10_StoredFallback ==
  InRefine =>
    IF \/ args.use_last /\ NoPriorState
       \/ ~args.use_last /\ args.task = <<>>
            /\ (file0 = <<>> \/ file0[1].task = <<>>)
      THEN RefineRefused
      ELSE ~RefineRefused

\* C10, amended: refine mode fails with MissingContext exactly when
\* --use-last is given and no prior state exists, or when neither --use-last
\* nor a task argument is given (a stored task is no fallback); in every
\* other case it builds the Refine prompt with the stored task (--use-last)
\* or the given task, and the stored command as the previous command.
C10_MissingContext ==
  InRefine =>
    IF \/ args.use_last /\ NoPriorState
       \/ ~args.use_last /\ args.task = <<>>
      THEN RefineRefused
      ELSE RefineBuilt(IF args.use_last THEN file0[1].task ELSE Join(args.task))

\* no --use-last and no task argument, refused though a task is stored
C10_Witness ==
  /\ InRefine /\ ~args.use_last /\ args.task = <<>>
  /\ file0 # <<>> /\ file0[1].task # <<>>
  /\ RefineRefused

InExplain == args.mode = "explain" /\ pc # "idle"

\* the command stored when the invocation started ("" when there is none)
StoredCmd0 == IF file0 = <<>> THEN <<>> ELSE file0[1].cmd

\* explain mode has called the backend once, with the Explain prompt of c
Explains(c) == ncalls = 1 /\ prompt = ExplainPrompt(c)

ExplainRefused == Done /\ status = 1 /\ outcome = "MissingCommand" /\ ncalls = 0

\* C11 as stated: explain mode takes its command from the --cmd argument
\* when that is non-empty (as given or trimmed) and otherwise from the last
\* persisted command; when neither is available it fails with
\* MissingCommand (status 1) without calling the backend; in every case the
\* state record and the history log are left unchanged.
C11_NonEmptyArgument ==
  InExplain =>
    /\ IF args.cmd # <<>>
         THEN Explains(args.cmd) \/ Explains(Strip(args.cmd))
       ELSE IF StoredCmd0 # <<>> THEN Explains(StoredCmd0)
       ELSE ExplainRefused
    /\ FilesUntouched

\* C11, amended: explain mode takes its command from the --cmd argument,
\* with the whitespace around it stripped, when that is non-empty, and
\* otherwise (an empty or all-whitespace argument) from the last persisted
\* command; when neither is available it fails with MissingCommand (status
\* 1) without calling the backend; in every case the state record and the
\* history log are left unchanged.
C11_ExplainCommand ==
  InExplain =>
    /\ IF Strip(args.cmd) # <<>> THEN Explains(Strip(args.cmd))
       ELSE IF StoredCmd0 # <<>> THEN Explains(StoredCmd0)
       ELSE ExplainRefused
    /\ FilesUntouched

\* an all-whitespace --cmd: the stored command is explained
C11_Witness ==
  /\ InExplain /\ args.cmd = <<" ">>
  /\ StoredCmd0 # <<>> /\ Explains(StoredCmd0)
  /\ Done /\ status = 0

\* the state file an invocation must have left at this point, told from
\* what it has generated, asked and executed, and not from --no-history
ExpectedFile ==
  IF Len(executed) = 2 /\ pc # "execute_improved"
    THEN IF rc2 = 0
           THEN save_state(task, improved, Some(<<>>), Some(0))
           ELSE save_state(task, improved,
                           Some(<<"e", "x", "i", "t", " ">> \o Decimal(rc2)),
                           Some(rc2))
  ELSE IF outcome = "DeclinedImproved"
    THEN save_state(task, improved, None, None)
  ELSE IF executed # <<>> /\ pc # "execute"
    THEN IF completed.returncode = 0
           THEN save_state(task, cmd, Some(<<>>), Some(0))
           ELSE save_state(task, cmd, Some(Strip(completed.stderr)),
                           Some(completed.returncode))
  ELSE IF outcome \in {"DeclinedDangerous", "DeclinedNormal"}
    THEN save_state(task, cmd, None, None)
  ELSE IF outcome = "ok" /\ args.mode \in {"suggest", "refine"}
    THEN save_state(task, cmd, None, None)
  ELSE file0

\* C12: with --no-history the history log is left unchanged by every mode
\* and every path of the invocation, and the state record is persisted as
\* it is without the flag: at every point it is the record that the
\* generated commands, the answers and the exit codes alone determine.
C12_NoHistory ==
  pc # "idle" =>
    /\ args.no_history => history = hist0
    /\ stateFile = ExpectedFile

\* --no-history on the refinement branch: the improved command succeeded,
\* the state record was replaced and the log of an earlier invocation kept
C12_Witness ==
  /\ Done /\ args.no_history
  /\ Len(executed) = 2 /\ rc2 = 0
  /\ hist0 # <<>> /\ history = hist0
  /\ stateFile # file0

\* the invocation has come to a save_history call: the generation succeeded
\* (suggest, refine), or the command executed last exited 0 (run)
ReachedLogging ==
  \/ args.mode \in {"suggest", "refine"} /\ cmd # <<>>
  \/ /\ args.mode = "run" /\ Len(executed) = 1 /\ pc # "execute"
     /\ completed.returncode = 0
  \/ /\ args.mode = "run" /\ Len(executed) = 2 /\ pc # "execute_improved"
     /\ rc2 = 0

\* C13: a failure to append to the history log is not fatal. A suggest,
\* refine or run invocation whose generation or execution succeeded still
\* persists the state record (the task and the command) and ends with its
\* normal exit status 0, whether or not the history log can be written, and
\* no exception leaves main.
C13_AppendFailureNonFatal ==
  (Done /\ ReachedLogging) =>
    /\ stateFile # <<>>
    /\ Stored.task = task
    /\ Stored.cmd = (IF Len(executed) = 2 THEN improved ELSE cmd)
    /\ status = 0
    /\ outcome # "UncaughtException"

\* C14: normalization is idempotent: normalizing a normalized string gives
\* the same string back, for every input.
C14_Idempotent ==
  Len(norm) >= 3 => norm[3] = norm[2]

\* C15: for every input, the normalized string holds no newline and no
\* whitespace at its start or its end, and the empty string normalizes to
\* the empty string.
C15_OneLineTrimmed ==
  Len(norm) >= 2 =>
    LET out == norm[2]
    IN  /\ \A i \in 1..Len(out) : out[i] # "\n"
        /\ out # <<>> => out[1] \notin SpaceChars /\ out[Len(out)] \notin SpaceChars
        /\ norm[1] = <<>> => out = <<>>

\* a string with a space at its start and a newline inside, normalized
C15_Witness ==
  /\ Len(norm) = 2
  /\ norm[1] = <<" ", "a", " ", "\n", "a">>
  /\ norm[2] = <<"a", " ", "a">>

RecordKeys == {TASK, CMD, LAST_ERROR, EXIT_CODE}

\* the dicts d and e hold the same task, cmd, last_error and exit_code
SameRecord(d, e) ==
  \A k \in RecordKeys : Has(d, k) /\ Has(e, k) /\ Lookup(d, k) = Lookup(e, k)

\* C16: the state round trip. For every record written by save_state (any
\* task, command and error text; an exit code absent, zero or nonzero),
\* load_state gives its fields back, and saving the loaded fields again
\* writes a record equal to the first on task, cmd, last_error and
\* exit_code; the timestamp alone may differ.
C16_RoundTrip ==
  /\ trip.stage # "error"
  /\ trip.stage \in {"loaded", "resaved"} => SameRecord(trip.loaded, trip.first)
  /\ trip.stage = "resaved" => SameRecord(read_state(trip.disk), trip.first)

\* a record with quotes, a newline and no exit code, saved again at a later
\* time: the fields are the same, the timestamp is not
C16_Witness ==
  /\ trip.stage = "resaved"
  /\ trip.given.task = PyStr(<<"a", "\n", QUOTE, ",">>)
  /\ trip.given.exit_code = None
  /\ Lookup(read_state(trip.disk), EXIT_CODE) = PyStr(<<>>)
  /\ Lookup(read_state(trip.disk), TIMESTAMP) # Lookup(trip.first, TIMESTAMP)

\* C17: every fatal condition ends the invocation with an exit status of its
\* own kind: usage and context errors with 1, an empty or multiline result
\* with 2, a declined dangerous command with 3, and a backend failure with
\* a status that is none of these, so that the status alone tells the
\* condition.
C17_DistinctStatuses ==
  Done =>
    /\ outcome \in {"MissingContext", "MissingTask", "MissingCommand"} =>
         status = 1
    /\ outcome = "EmptyOrMultilineResult" => status = 2
    /\ outcome = "DeclinedDangerous" => status = 3
    /\ outcome = "BackendError" => status \notin {1, 2, 3}

\* the line just read is accepted by the gate that the code puts before c
Confirmed(c) ==
  IF is_dangerous(c)
    THEN Answered({"dangerous"}) /\ Strip(Line) = YES
    ELSE Answered({"normal"}) /\ Strip(Lower(Line)) \in {<<"y">>, <<"y", "e", "s">>}

\* C18: no command is executed without an accepted confirmation of that
\* command in the same invocation. Suggest, refine and explain never hand a
\* command to the shell; in run mode the generated command is handed over
\* right after its prompt was answered affirmatively, the improved command
\* right after the second prompt was; an invocation executes at most two
\* commands and calls the backend at most twice.
C18_ConfirmedExecution ==
  /\ args.mode \in {"suggest", "refine", "explain"} => executed = <<>>
  /\ Len(executed) <= 2 /\ ncalls <= 2
  /\ pc \in {"run_call", "confirm_dangerous", "confirm_normal"} => executed = <<>>
  /\ pc \in {"refine_offer", "improve_call", "confirm_improved"} =>
       executed = <<cmd>>
  /\ pc = "execute" => executed = <<cmd>> /\ Confirmed(cmd)
  /\ pc = "execute_improved" =>
       /\ executed = <<cmd, improved>>
       /\ Answered({"improved"})
       /\ Strip(Lower(Line)) \in {<<"y">>, <<"y", "e", "s">>}
  /\ Done => \/ executed = <<>>
             \/ executed = <<cmd>>
             \/ executed = <<cmd, improved>>

\* the second command of an invocation is about to run, after two backend
\* calls and the answer to the second prompt
C18_Witness ==
  /\ pc = "execute_improved"
  /\ executed = <<cmd, improved>> /\ ncalls = 2
  /\ Answered({"improved"}) /\ Line = <<"y", "e", "s">>

\* a non-empty string without a newline
OneLine(c) == c # <<>> /\ \A i \in 1..Len(c) : c[i] # "\n"

\* C19: starting from an absent state record, after any invocations in any
\* modes, the persisted command (when there is a state record) and the
\* command of every history entry are non-empty and hold no newline; a
\* generation whose normalized result is empty ends the invocation with
\* status 2, with no write to the state record or the history log after it.
C19_CommandsOneLine ==
  /\ stateFile # <<>> => OneLine(Stored.cmd)
  /\ \A i \in 1..Len(history) : OneLine(history[i].cmd)
  /\ outcome = "EmptyOrMultilineResult" =>
       /\ Done /\ status = 2
       /\ history = hist0
       /\ stateFile = ExpectedFile
       /\ executed = <<>> => stateFile = file0

\* an empty generation in an invocation that found a state record and a
\* history log: status 2, both as they were
C19_Witness ==
  /\ Done /\ outcome = "EmptyOrMultilineResult" /\ status = 2
  /\ file0 # <<>> /\ stateFile = file0
  /\ hist0 # <<>> /\ history = hist0

\* process i has settled its task and its previous command
Settled(i) ==
  \/ conc.procs[i].pc \in {"call", "save", "write"}
  \/ conc.procs[i].pc = "done" /\ conc.procs[i].data # <<>>

\* every --use-last invocation works on the task and the command of the
\* dict it loaded when it started
ReadOnce ==
  \A i \in Procs :
    (conc.procs[i].mode = "refine" /\ Settled(i)) =>
      LET p == conc.procs[i]
      IN  /\ Has(p.state, TASK) /\ Lookup(p.state, TASK) = PyStr(p.task)
          /\ Has(p.state, CMD) /\ Lookup(p.state, CMD) = PyStr(p.prev_cmd)

\* C20 as stated (the second half): the state file, when it is there and
\* not just truncated, always holds the complete record of one invocation's
\* save.
C20_WholeFile ==
  \/ conc.disk \in {<<>>, << <<>> >>}
  \/ \E d \in conc.saves : conc.disk[1] = json_dumps(d)

\* C20, amended: invocations read the state record once, at their start,
\* and replace it later without locking, so a --use-last invocation works on
\* the task and command it loaded even when another invocation has
\* overwritten them since (a lost update); what load_state reads is always
\* either nothing (the file is absent, truncated, or holds one save's text
\* followed by the rest of a longer one) or the complete record of one
\* invocation's save, never a mix of fields from two.
C20_ReadableRecordWhole ==
  /\ ReadOnce
  /\ LET d == read_state(conc.disk)
     IN  d = <<>> \/ d \in conc.saves

\* a lost update: a refine --use-last invocation has replaced the record
\* with one built from the task it loaded, after the other process had
\* saved a record of a different task in between
C20_Witness ==
  \E i \in Procs :
    LET p == conc.procs[i]
    IN  /\ p.mode = "refine" /\ p.pc = "done" /\ p.status = 0 /\ p.stale
        /\ conc.disk = <<json_dumps(p.data)>>
        /\ Lookup(read_state(conc.disk), TASK) = PyStr(p.task)
        /\ \E d \in conc.saves : Lookup(d, TASK) # PyStr(p.task)
====
